---- MODULE Spec2Model ----
(***************************************************************************)
(* A model of mlp/data_providers.py: the generic DataProvider (batching,   *)
(* per-epoch shuffling, end-of-epoch signalling) and the one-of-K target   *)
(* encoding of MNISTDataProvider.                                          *)
(*                                                                         *)
(* Python objects are modelled as functions from attribute names to        *)
(* values (the object's __dict__), so that an attribute that was never     *)
(* assigned is absent from the DOMAIN.  numpy arrays are sequences; row    *)
(* index i of the source is position i + 1 here.                           *)
(***************************************************************************)
EXTENDS Integers, Sequences, FiniteSets, TLC

VARIABLES
    objs,        \* provider id -> the DataProvider object's attributes
    ctor,        \* provider id -> outcome of the constructor call
    rngs,        \* RandomState object id -> generator state
    args,        \* provider id -> the arguments __init__ was called with
    result,      \* provider id -> what the last call on the provider gave
    hist,        \* provider id -> counters of the calls made so far
    int_targets, \* argument of the to_one_of_k call under study
    to_one_k,    \* its result
    pc           \* which scenario is running

vars == <<objs, ctor, rngs, args, result, hist, int_targets, to_one_k, pc>>

----------------------------------------------------------------------------
(* Bounds of the model. *)

MaxN == 4                \* dataset sizes 0..MaxN
MaxBatchSize == 3        \* batch_size ranges over -1..MaxBatchSize
MaxMaxNumBatches == 3    \* max_num_batches ranges over -2..MaxMaxNumBatches
MaxSeed == 1             \* caller-seeded generators use seeds 0..MaxSeed
MaxCalls == 10           \* next() calls per provider
MaxResets == 2           \* explicit reset() calls per provider
MaxLabels == 2           \* length of the label batches given to to_one_of_k
LabelSlack == 1          \* labels range over -(10+LabelSlack) .. 9+LabelSlack
RngModulus == 24         \* number of states of the modelled generator
MaxSeries == 5           \* length of the weather series read from the file
MaxWindow == 3           \* window_size ranges over -1..MaxWindow
MaxMetCalls == 4         \* next() calls on the weather provider

ProviderIds == {1, 2}
None == "None"

----------------------------------------------------------------------------
(* Python and numpy primitives. *)

Min(a, b) == IF a < b THEN a ELSE b
Max(a, b) == IF a > b THEN a ELSE b

\* Python's a // b on integers, a >= 0, b # 0: rounds towards minus infinity.
FloorDiv(a, b) ==
    IF b > 0 THEN a \div b ELSE 0 - ((a + (0 - b) - 1) \div (0 - b))

\* A slice bound of Python, normalised against a length n.
SliceBound(i, n) == IF i < 0 THEN Max(i + n, 0) ELSE Min(i, n)

\* seq[lo:hi] of Python (0-based, half open, clamped).
Slice(seq, lo, hi) ==
    LET a == SliceBound(lo, Len(seq))
        b == SliceBound(hi, Len(seq))
    IN  IF a < b THEN SubSeq(seq, a + 1, b) ELSE << >>

\* seq[order]: numpy indexing by an array of 0-based indices.
Take(seq, order) == [i \in 1..Len(order) |-> seq[order[i] + 1]]

\* obj.name = v
SetAttr(obj, name, v) ==
    [x \in (DOMAIN obj) \cup {name} |-> IF x = name THEN v ELSE obj[x]]

RECURSIVE Fact(_)
Fact(n) == IF n <= 1 THEN 1 ELSE n * Fact(n - 1)

RemoveAt(seq, i) == SubSeq(seq, 1, i - 1) \o SubSeq(seq, i + 1, Len(seq))

\* The k-th arrangement (k in 0..Len(elems)!-1) of elems, in lexicographic rank.
RECURSIVE Unrank(_, _)
Unrank(k, elems) ==
    IF Len(elems) = 0 THEN << >>
    ELSE LET f == Fact(Len(elems) - 1)
             i == (k \div f) + 1
         IN  <<elems[i]>> \o Unrank(k % f, RemoveAt(elems, i))

\* np.random.RandomState(seed): a fresh generator object.
RandomState(seed) == [state |-> seed % RngModulus, draws |-> 0]

\* rng.permutation(n): a permutation of 0..n-1 decided by the generator's
\* state, and the generator after the draw.
permutation(g, n) ==
    [order |-> Unrank(g.state % Fact(n), [i \in 1..n |-> i - 1]),
     rng   |-> [state |-> (13 * g.state + 5) % RngModulus,
                draws |-> g.draws + 1]]

DEFAULT_SEED == 123456

----------------------------------------------------------------------------
(* The program state as one value, so that calls compose. *)

World == [objs |-> objs, ctor |-> ctor, rngs |-> rngs, result |-> result]

\* The generator object made for provider p (by its caller, or by __init__).
RngOf(p) == IF p = 1 THEN "rng1" ELSE "rng2"

\* The tag of an input row (its index at construction) and the target it was
\* paired with at construction.
TargetOf(row) == 100 + row

----------------------------------------------------------------------------
(* class DataProvider *)

\* shuffle with only the inputs reordered.
shuffle_InputsOnly(w, p) ==
    LET self == w.objs[p]
        drawn == permutation(w.rngs[self.rng], Len(self.inputs))
    IN  [w EXCEPT !.rngs[self.rng] = drawn.rng,
                  !.objs[p] = SetAttr(self, "inputs",
                                      Take(self.inputs, drawn.order))]

\* shuffle drawing from one generator shared by every provider.
shuffle_SharedRng(w, p) ==
    LET self == w.objs[p]
        drawn == permutation(w.rngs[RngOf(1)], Len(self.inputs))
        self1 == SetAttr(self, "inputs", Take(self.inputs, drawn.order))
        self2 == SetAttr(self1, "targets", Take(self.targets, drawn.order))
    IN  [w EXCEPT !.rngs[RngOf(1)] = drawn.rng, !.objs[p] = self2]

\* DataProvider.shuffle, on provider p of world w.
shuffle(w, p) ==
    LET self == w.objs[p]
        drawn == permutation(w.rngs[self.rng], Len(self.inputs))
        new_order == drawn.order
        self1 == SetAttr(self, "inputs", Take(self.inputs, new_order))
        self2 == SetAttr(self1, "targets", Take(self.targets, new_order))
    IN  [w EXCEPT !.rngs[self.rng] = drawn.rng, !.objs[p] = self2]

\* reset that shuffles whatever shuffle_order says.
reset_AlwaysShuffle(w, p) ==
    shuffle([w EXCEPT !.objs[p] = SetAttr(@, "_curr_batch", 0)], p)

\* reset leaving the cursor where it is.
reset_KeepCursor(w, p) ==
    LET w1 == [w EXCEPT !.objs[p] = SetAttr(@, "_curr_batch",
                 IF "_curr_batch" \in DOMAIN @ THEN @._curr_batch ELSE 0)]
    IN  IF w1.objs[p].shuffle_order THEN shuffle(w1, p) ELSE w1

\* reset that never shuffles.
reset_NeverShuffle(w, p) ==
    [w EXCEPT !.objs[p] = SetAttr(@, "_curr_batch", 0)]

\* DataProvider.reset
reset(w, p) ==
    LET w1 == [w EXCEPT !.objs[p] = SetAttr(@, "_curr_batch", 0)]
    IN  IF w1.objs[p].shuffle_order THEN shuffle(w1, p) ELSE w1

\* The exhaustion test with the comparison off by one.
Exhausted_OffByOne(self) == self._curr_batch > self.num_batches

\* DataProvider.next, line 80: no more batches in the current epoch.
Exhausted(self) == self._curr_batch + 1 > self.num_batches

\* The slice with a stride of one row instead of one batch.
batch_slice_RowStride(self) ==
    <<self._curr_batch, self._curr_batch + self.batch_size>>

\* DataProvider.next, lines 86-87: the index slice of the current batch.
batch_slice(self) ==
    <<self._curr_batch * self.batch_size,
      (self._curr_batch + 1) * self.batch_size>>

\* next signalling the end of the epoch without resetting.
next_SignalWithoutReset(w, p) ==
    LET self == w.objs[p] IN
    IF Exhausted(self)
    THEN [w EXCEPT !.result[p] = [kind |-> "StopIteration"]]
    ELSE LET sl == batch_slice(self)
         IN  [w EXCEPT
                !.objs[p] = SetAttr(self, "_curr_batch", self._curr_batch + 1),
                !.result[p] = [kind |-> "batch",
                               batch_slice |-> sl,
                               inputs_batch |-> Slice(self.inputs, sl[1], sl[2]),
                               targets_batch |-> Slice(self.targets, sl[1], sl[2])]]

\* next reshuffling the data after every batch it returns.
next_ShuffleEachBatch(w, p) ==
    LET self == w.objs[p] IN
    IF Exhausted(self)
    THEN [reset(w, p) EXCEPT !.result[p] = [kind |-> "StopIteration"]]
    ELSE LET sl == batch_slice(self)
             w1 == [w EXCEPT
                !.objs[p] = SetAttr(self, "_curr_batch", self._curr_batch + 1),
                !.result[p] = [kind |-> "batch",
                               batch_slice |-> sl,
                               inputs_batch |-> Slice(self.inputs, sl[1], sl[2]),
                               targets_batch |-> Slice(self.targets, sl[1], sl[2])]]
         IN  IF self.shuffle_order THEN shuffle(w1, p) ELSE w1

\* DataProvider.next: the world after the call, result[p] holding the returned
\* pair or the exception raised.
next(w, p) ==
    LET self == w.objs[p] IN
    IF Exhausted(self)
    THEN [reset(w, p) EXCEPT !.result[p] = [kind |-> "StopIteration"]]
    ELSE LET sl == batch_slice(self)
         IN  [w EXCEPT
                !.objs[p] = SetAttr(self, "_curr_batch", self._curr_batch + 1),
                !.result[p] = [kind |-> "batch",
                               batch_slice |-> sl,
                               inputs_batch |-> Slice(self.inputs, sl[1], sl[2]),
                               targets_batch |-> Slice(self.targets, sl[1], sl[2])]]

\* The assertion rejecting only 0.
MaxNumBatchesOk_ZeroOnly(max_num_batches) == max_num_batches # 0

\* DataProvider.__init__, line 39: the condition asserted of max_num_batches.
MaxNumBatchesOk(max_num_batches) ==
    max_num_batches # 0 /\ ~(max_num_batches < -1)

\* The batch count taking the larger of the cap and the possible count.
NumBatches_Max(num_data, batch_size, max_num_batches) ==
    LET possible_num_batches == FloorDiv(num_data, batch_size)
    IN  IF max_num_batches = -1
        THEN possible_num_batches
        ELSE Max(max_num_batches, possible_num_batches)

\* DataProvider.__init__, lines 45-49, for a batch_size other than 0.
NumBatches(num_data, batch_size, max_num_batches) ==
    LET possible_num_batches == FloorDiv(num_data, batch_size)
    IN  IF max_num_batches = -1
        THEN possible_num_batches
        ELSE Min(max_num_batches, possible_num_batches)

\* DataProvider.__init__ called with arguments a on the fresh object p.  An
\* exception leaves the attributes assigned so far and no usable provider.
\* a.rng is None or the id of a generator the caller made.
__init__(w, p, a) ==
    LET self1 == SetAttr(SetAttr(SetAttr(w.objs[p],
                     "inputs", a.inputs), "targets", a.targets),
                     "batch_size", a.batch_size)
    IN
    IF ~MaxNumBatchesOk(a.max_num_batches)
    THEN [w EXCEPT !.objs[p] = self1, !.ctor[p] = "AssertionError"]
    ELSE
    LET self2 == SetAttr(self1, "max_num_batches", a.max_num_batches) IN
    IF a.batch_size = 0
    THEN [w EXCEPT !.objs[p] = self2, !.ctor[p] = "ZeroDivisionError"]
    ELSE
    LET num_batches == NumBatches(Len(self2.inputs), a.batch_size,
                                  self2.max_num_batches)
        self3 == SetAttr(SetAttr(SetAttr(self2,
                     "num_batches", num_batches),
                     "shuffle_order", a.shuffle_order),
                     "rng", IF a.rng = None THEN RngOf(p) ELSE a.rng)
        rngs1 == IF a.rng = None
                 THEN SetAttr(w.rngs, RngOf(p), RandomState(DEFAULT_SEED))
                 ELSE w.rngs
    IN  reset([w EXCEPT !.objs[p] = self3, !.rngs = rngs1, !.ctor[p] = "ok"], p)

----------------------------------------------------------------------------
(* class MNISTDataProvider *)

num_classes == 10
ZerosColumns == 10

\* The loop taking labels to count from 1.
RECURSIVE to_one_of_k_loop_FromOne(_, _, _)
to_one_of_k_loop_FromOne(targets, i, m) ==
    IF i >= Len(targets) THEN [kind |-> "return", value |-> m]
    ELSE LET c == targets[i + 1] - 1 IN
         IF c >= ZerosColumns \/ c < 0 - ZerosColumns
         THEN [kind |-> "IndexError"]
         ELSE to_one_of_k_loop_FromOne(targets, i + 1,
                  [m EXCEPT ![i + 1][IF c < 0 THEN c + ZerosColumns ELSE c] = 1])

RECURSIVE to_one_of_k_loop(_, _, _)
to_one_of_k_loop(targets, i, m) ==
    IF i >= Len(targets) THEN [kind |-> "return", value |-> m]
    ELSE LET c == targets[i + 1] IN
         IF c >= ZerosColumns \/ c < 0 - ZerosColumns
         THEN [kind |-> "IndexError"]
         ELSE to_one_of_k_loop(targets, i + 1,
                  [m EXCEPT ![i + 1][IF c < 0 THEN c + ZerosColumns ELSE c] = 1])

\* MNISTDataProvider.to_one_of_k: rows are indexed from position 1, columns
\* from 0 as in the source.
to_one_of_k(targets) ==
    LET num_data == Len(targets)
        zeros == [r \in 1..num_data |-> [c \in 0..(ZerosColumns - 1) |-> 0]]
    IN  to_one_of_k_loop(targets, 0, zeros)

\* Line 114: the condition asserted of which_set.
WhichSetOk(which_set) == which_set \in {"train", "valid", "eval"}

\* MNISTDataProvider.__init__ on the fresh object p; a.inputs and a.targets
\* are the arrays loaded from the data file of a.which_set.
MNIST__init__(w, p, a) ==
    IF ~WhichSetOk(a.which_set)
    THEN [w EXCEPT !.ctor[p] = "AssertionError"]
    ELSE
    LET self1 == SetAttr(SetAttr(w.objs[p],
                     "which_set", a.which_set), "num_classes", num_classes)
    IN  __init__([w EXCEPT !.objs[p] = self1], p,
                 [inputs |-> a.inputs, targets |-> a.targets,
                  batch_size |-> a.batch_size,
                  max_num_batches |-> a.max_num_batches,
                  shuffle_order |-> a.shuffle_order, rng |-> a.rng])

\* next encoding the provider's whole target array instead of the batch.
MNIST_next_EncodeAll(w, p) ==
    LET w2 == next(w, p) IN
    IF w2.result[p].kind = "StopIteration" THEN w2
    ELSE [w2 EXCEPT !.result[p].targets_batch =
                       to_one_of_k(w2.objs[p].targets).value]

\* MNISTDataProvider.next: the base class's next, then the targets of the
\* returned batch encoded; an exception of either passes to the caller.
MNIST_next(w, p) ==
    LET w2 == next(w, p) IN
    IF w2.result[p].kind = "StopIteration" THEN w2
    ELSE LET encoded == to_one_of_k(w2.result[p].targets_batch) IN
         IF encoded.kind = "IndexError"
         THEN [w2 EXCEPT !.result[p] = [kind |-> "IndexError"]]
         ELSE [w2 EXCEPT !.result[p].targets_batch = encoded.value]

----------------------------------------------------------------------------
(* class MetOfficeDataProvider *)

\* The value marking a missing observation, -99.99, in hundredths (as every
\* value of the series here).
Sentinel == -9999

RECURSIVE SumSeq(_)
SumSeq(seq) == IF Len(seq) = 0 THEN 0 ELSE Head(seq) + SumSeq(Tail(seq))

\* The mask keeping every entry, missing observations too.
Filtered_KeepAll(data) == data

\* Line 199: self.data[self.data != -99.99].flatten()
Filtered(data) == SelectSeq(data, LAMBDA x : x # Sentinel)

\* Lines 201-203: (x - mean) / std_dev over the filtered data, kept exact as
\* the fraction num / sqrt(den2) (den2 = 0 is numpy's nan or inf).
ZScore(x, filtered) ==
    LET n == Len(filtered)
        s == SumSeq(filtered)
        ss == SumSeq([i \in 1..n |-> filtered[i] * filtered[i]])
    IN  [num |-> n * x - s, den2 |-> n * ss - s * s]

\* Lines 205-208: the trailing entries that fill no window are dropped.
Truncated(normalized, window_size) ==
    LET no_of_omit == Len(normalized) % window_size
    IN  IF no_of_omit # 0 THEN Slice(normalized, 0, 0 - no_of_omit)
        ELSE normalized

\* Lines 209, 211: np.reshape(series, (-1, window_size)), row major.
Reshape(series, window_size) ==
    [j \in 1..(Len(series) \div window_size) |->
        [k \in 1..window_size |-> series[(j - 1) * window_size + k]]]

\* The targets taken from the first entry of each window.
WindowTargets_First(windowed_data) ==
    [j \in 1..Len(windowed_data) |-> windowed_data[j][1]]

\* Line 214: windowed_data[:, :window_size-1]
WindowInputs(windowed_data, window_size) ==
    [j \in 1..Len(windowed_data) |-> Slice(windowed_data[j], 0, window_size - 1)]

\* Line 216: windowed_data[:, -1]
WindowTargets(windowed_data) ==
    [j \in 1..Len(windowed_data) |-> windowed_data[j][Len(windowed_data[j])]]

\* The assertion accepting a window of one entry.
WindowSizeOk_Positive(window_size) == window_size > 0

\* Line 190: the condition asserted of window_size.
WindowSizeOk(window_size) == window_size > 1

\* MetOfficeDataProvider.__init__ on the fresh object p; a.data is the series
\* loaded from the data file (columns 2.. of its rows, row after row).
MetOffice__init__(w, p, a) ==
    LET self1 == SetAttr(w.objs[p], "window_size", a.window_size) IN
    IF ~WindowSizeOk(a.window_size)
    THEN [w EXCEPT !.objs[p] = self1, !.ctor[p] = "AssertionError"]
    ELSE
    LET filtered_data == Filtered(a.data)
        normalized_data_z ==
            [i \in 1..Len(filtered_data) |->
                ZScore(filtered_data[i], filtered_data)]
        truncated == Truncated(normalized_data_z, a.window_size)
        windowed_data == Reshape(truncated, a.window_size)
        self2 == SetAttr(SetAttr(SetAttr(SetAttr(self1,
                     "data", a.data),
                     "filtered_data", filtered_data),
                     "normalized_data_z", truncated),
                     "windowed_data", windowed_data)
        inputs == WindowInputs(windowed_data, a.window_size)
        targets == WindowTargets(windowed_data)
    IN  __init__([w EXCEPT !.objs[p] = self2], p,
                 [inputs |-> inputs, targets |-> targets,
                  batch_size |-> a.batch_size,
                  max_num_batches |-> a.max_num_batches,
                  shuffle_order |-> a.shuffle_order, rng |-> a.rng])

----------------------------------------------------------------------------
(* Calls, with the bookkeeping the properties read. *)

Set(w) ==
    /\ objs' = w.objs
    /\ ctor' = w.ctor
    /\ rngs' = w.rngs
    /\ result' = w.result

NoHist == [calls |-> 0, resets |-> 0, signals |-> 0, epoch |-> << >>,
           left_out |-> {}]

\* The constructor arguments over a dataset of n tagged rows.
CtorArgs(n, rng) ==
    { [inputs |-> [i \in 1..n |-> i - 1],
       targets |-> [i \in 1..n |-> TargetOf(i - 1)],
       batch_size |-> b, max_num_batches |-> m, shuffle_order |-> s,
       rng |-> rng] :
      b \in (-1)..MaxBatchSize, m \in (-2)..MaxMaxNumBatches, s \in BOOLEAN }

\* hist[p] after a next() call that took world w to w2.
HistAfterNext(h, w2, p) ==
    IF w2.result[p].kind = "StopIteration"
    THEN [h EXCEPT !.calls = @ + 1, !.signals = @ + 1, !.epoch = << >>,
                   !.left_out =
                      {w2.objs[p].inputs[i] : i \in 1..Len(w2.objs[p].inputs)}
                      \ UNION {{h.epoch[k][i] : i \in 1..Len(h.epoch[k])} :
                                k \in 1..Len(h.epoch)}]
    ELSE [h EXCEPT !.calls = @ + 1,
                   !.epoch = Append(@, w2.result[p].inputs_batch)]

HistAfterReset(h) == [h EXCEPT !.resets = @ + 1, !.epoch = << >>]

\* The world after a call on p that returned None.
Returned(w, p) == [w EXCEPT !.result[p] = [kind |-> "None"]]

Usable(p) == ctor[p] = "ok"

----------------------------------------------------------------------------
(* One provider driven by its consumer. *)

Init ==
    /\ objs = [p \in ProviderIds |-> << >>]
    /\ ctor = [p \in ProviderIds |-> "none"]
    /\ rngs = << >>
    /\ args = [p \in ProviderIds |-> << >>]
    /\ result = [p \in ProviderIds |-> [kind |-> "none"]]
    /\ hist = [p \in ProviderIds |-> NoHist]
    /\ int_targets = << >>
    /\ to_one_k = [kind |-> "none"]
    /\ pc = "start"

\* DataProvider(inputs, targets, batch_size, max_num_batches, shuffle_order)
ConstructDefaultRng ==
    /\ pc = "start"
    /\ \E n \in 0..MaxN : \E a \in CtorArgs(n, None) :
          /\ Set(__init__(World, 1, a))
          /\ args' = [args EXCEPT ![1] = a]
    /\ pc' = "one"
    /\ UNCHANGED <<hist, int_targets, to_one_k>>

\* DataProvider(..., rng=np.random.RandomState(seed))
ConstructSeededRng ==
    /\ pc = "start"
    /\ \E n \in 0..MaxN : \E seed \in 0..MaxSeed :
       \E a \in CtorArgs(n, RngOf(1)) :
          /\ Set(__init__([World EXCEPT
                   !.rngs = SetAttr(@, RngOf(1), RandomState(seed))], 1, a))
          /\ args' = [args EXCEPT ![1] = a]
    /\ pc' = "one"
    /\ UNCHANGED <<hist, int_targets, to_one_k>>

Next1 ==
    /\ pc = "one" /\ Usable(1) /\ hist[1].calls < MaxCalls
    /\ LET w2 == next(World, 1) IN
          /\ Set(w2)
          /\ hist' = [hist EXCEPT ![1] = HistAfterNext(@, w2, 1)]
    /\ UNCHANGED <<args, int_targets, to_one_k, pc>>

Reset1 ==
    /\ pc = "one" /\ Usable(1) /\ hist[1].resets < MaxResets
    /\ Set(Returned(reset(World, 1), 1))
    /\ hist' = [hist EXCEPT ![1] = HistAfterReset(@)]
    /\ UNCHANGED <<args, int_targets, to_one_k, pc>>

Next == ConstructDefaultRng \/ ConstructSeededRng \/ Next1 \/ Reset1

Spec == Init /\ [][Next]_vars

----------------------------------------------------------------------------
(* Two providers built from the same arguments, each with a generator of   *)
(* its own seeded alike, and given the same calls.                         *)

PairConstructDefaultRng ==
    /\ pc = "start"
    /\ \E n \in 0..MaxN : \E a \in CtorArgs(n, None) :
          /\ Set(__init__(__init__(World, 1, a), 2, a))
          /\ args' = [p \in ProviderIds |-> a]
    /\ pc' = "pair"
    /\ UNCHANGED <<hist, int_targets, to_one_k>>

PairConstructSeededRng ==
    /\ pc = "start"
    /\ \E n \in 0..MaxN : \E seed \in 0..MaxSeed :
       \E a1 \in CtorArgs(n, RngOf(1)) :
          LET a2 == [a1 EXCEPT !.rng = RngOf(2)]
              w0 == [World EXCEPT
                       !.rngs = SetAttr(SetAttr(@,
                                   RngOf(1), RandomState(seed)),
                                   RngOf(2), RandomState(seed))]
          IN  /\ Set(__init__(__init__(w0, 1, a1), 2, a2))
              /\ args' = [p \in ProviderIds |-> IF p = 1 THEN a1 ELSE a2]
    /\ pc' = "pair"
    /\ UNCHANGED <<hist, int_targets, to_one_k>>

PairNext ==
    /\ pc = "pair" /\ Usable(1) /\ Usable(2) /\ hist[1].calls < MaxCalls
    /\ LET w2 == next(next(World, 1), 2) IN
          /\ Set(w2)
          /\ hist' = [p \in ProviderIds |-> HistAfterNext(hist[p], w2, p)]
    /\ UNCHANGED <<args, int_targets, to_one_k, pc>>

PairReset ==
    /\ pc = "pair" /\ Usable(1) /\ Usable(2) /\ hist[1].resets < MaxResets
    /\ Set(Returned(reset(Returned(reset(World, 1), 1), 2), 2))
    /\ hist' = [p \in ProviderIds |-> HistAfterReset(hist[p])]
    /\ UNCHANGED <<args, int_targets, to_one_k, pc>>

NextPair ==
    PairConstructDefaultRng \/ PairConstructSeededRng \/ PairNext \/ PairReset

SpecPair == Init /\ [][NextPair]_vars

----------------------------------------------------------------------------
(* to_one_of_k applied to a batch of integer labels. *)

Labels == (0 - num_classes - LabelSlack)..(num_classes - 1 + LabelSlack)

InitOneHot ==
    /\ objs = [p \in ProviderIds |-> << >>]
    /\ ctor = [p \in ProviderIds |-> "none"]
    /\ rngs = << >>
    /\ args = [p \in ProviderIds |-> << >>]
    /\ result = [p \in ProviderIds |-> [kind |-> "none"]]
    /\ hist = [p \in ProviderIds |-> NoHist]
    /\ int_targets \in UNION {[1..n -> Labels] : n \in 0..MaxLabels}
    /\ to_one_k = [kind |-> "none"]
    /\ pc = "to_one_of_k"

OneHotCall ==
    /\ pc = "to_one_of_k"
    /\ to_one_k' = to_one_of_k(int_targets)
    /\ pc' = "returned"
    /\ UNCHANGED <<objs, ctor, rngs, args, result, hist, int_targets>>

NextOneHot == OneHotCall

SpecOneHot == InitOneHot /\ [][NextOneHot]_vars

----------------------------------------------------------------------------
(* The weather provider built over a series and driven by its consumer. *)

\* The series of length n: each entry is missing or its own reading.
Series(n) ==
    { [i \in 1..n |-> IF i \in missing THEN Sentinel ELSE 100 * i] :
      missing \in SUBSET (1..n) }

MetArgs ==
    { [window_size |-> ws, data |-> d, batch_size |-> b,
       max_num_batches |-> m, shuffle_order |-> s, rng |-> None] :
      ws \in (-1)..MaxWindow,
      d \in UNION {Series(n) : n \in 0..MaxSeries},
      b \in 1..2, m \in (-1)..1, s \in BOOLEAN }

\* MetOfficeDataProvider(window_size, batch_size, max_num_batches,
\* shuffle_order)
MetConstruct ==
    /\ pc = "start"
    /\ \E a \in MetArgs :
          /\ Set(MetOffice__init__(World, 1, a))
          /\ args' = [args EXCEPT ![1] = a]
    /\ pc' = "met"
    /\ UNCHANGED <<hist, int_targets, to_one_k>>

MetNext ==
    /\ pc = "met" /\ Usable(1) /\ hist[1].calls < MaxMetCalls
    /\ LET w2 == next(World, 1) IN
          /\ Set(w2)
          /\ hist' = [hist EXCEPT ![1] = HistAfterNext(@, w2, 1)]
    /\ UNCHANGED <<args, int_targets, to_one_k, pc>>

MetReset ==
    /\ pc = "met" /\ Usable(1) /\ hist[1].resets < 1
    /\ Set(Returned(reset(World, 1), 1))
    /\ hist' = [hist EXCEPT ![1] = HistAfterReset(@)]
    /\ UNCHANGED <<args, int_targets, to_one_k, pc>>

NextMet == MetConstruct \/ MetNext \/ MetReset

SpecMet == Init /\ [][NextMet]_vars

----------------------------------------------------------------------------
(* A DataProvider (1) and an MNISTDataProvider (2) over the same arrays,   *)
(* each with its own default generator, given the same calls.              *)

\* The class label stored with image row.
LabelOf(row) == (7 * row + 3) % num_classes

MnistArgs(n) ==
    { [which_set |-> ws,
       inputs |-> [i \in 1..n |-> i - 1],
       targets |-> [i \in 1..n |-> LabelOf(i - 1)],
       batch_size |-> b, max_num_batches |-> m, shuffle_order |-> s,
       rng |-> None] :
      ws \in {"train", "valid", "eval", "test"},
      b \in 1..MaxBatchSize, m \in (-1)..MaxMaxNumBatches, s \in BOOLEAN }

MnistConstruct ==
    /\ pc = "start"
    /\ \E n \in 0..MaxN : \E a \in MnistArgs(n) :
          /\ Set(MNIST__init__(__init__(World, 1, a), 2, a))
          /\ args' = [p \in ProviderIds |-> a]
    /\ pc' = "mnist"
    /\ UNCHANGED <<hist, int_targets, to_one_k>>

MnistNext ==
    /\ pc = "mnist" /\ Usable(1) /\ Usable(2) /\ hist[1].calls < MaxCalls
    /\ LET w2 == MNIST_next(next(World, 1), 2) IN
          /\ Set(w2)
          /\ hist' = [p \in ProviderIds |-> HistAfterNext(hist[p], w2, p)]
    /\ UNCHANGED <<args, int_targets, to_one_k, pc>>

MnistReset ==
    /\ pc = "mnist" /\ Usable(1) /\ Usable(2) /\ hist[1].resets < MaxResets
    /\ Set(Returned(reset(Returned(reset(World, 1), 1), 2), 2))
    /\ hist' = [p \in ProviderIds |-> HistAfterReset(hist[p])]
    /\ UNCHANGED <<args, int_targets, to_one_k, pc>>

NextMnist == MnistConstruct \/ MnistNext \/ MnistReset

SpecMnist == Init /\ [][NextMnist]_vars

----------------------------------------------------------------------------
(* Properties of one provider (specification Spec). *)

\* The set of elements of a sequence.
Range(seq) == {seq[i] : i \in 1..Len(seq)}

\* The target paired at construction with the input row tagged id.
OriginalTarget(p, id) == args[p].targets[id + 1]

\* C1: with batch_size > 0 and num_batches >= 1, consecutive next() calls
\* after construction give num_batches batches, then one StopIteration, and
\* so on: the c-th call signals end-of-epoch exactly when c is a multiple of
\* num_batches + 1, and every other call returns the batch whose place in the
\* epoch is (c mod (num_batches + 1)) - 1, the first one right after a signal.
C1_EpochCycle ==
    (Usable(1) /\ hist[1].resets = 0 /\ hist[1].calls > 0
       /\ args[1].batch_size > 0 /\ objs[1].num_batches >= 1) =>
    LET cycle == objs[1].num_batches + 1
        c == hist[1].calls
    IN  /\ result[1].kind \in {"batch", "StopIteration"}
        /\ (result[1].kind = "StopIteration") <=> (c % cycle = 0)
        /\ hist[1].signals = c \div cycle
        /\ result[1].kind = "batch" =>
              /\ result[1].batch_slice[1]
                    = ((c % cycle) - 1) * args[1].batch_size
              /\ Len(result[1].inputs_batch) = args[1].batch_size

\* A batch served in the third epoch of a provider with two or more batches.
C1_Witness ==
    /\ Usable(1) /\ hist[1].resets = 0 /\ args[1].batch_size > 0
    /\ objs[1].num_batches >= 2
    /\ hist[1].signals = 2 /\ result[1].kind = "batch"

\* C2: inputs[i] and targets[i] stay the pair made at construction, the
\* stored rows stay a permutation of the original rows, and every returned
\* batch pairs each input with its original target.
C2_Pairing ==
    Usable(1) =>
    LET n == Len(args[1].inputs) IN
    /\ Len(objs[1].inputs) = n /\ Len(objs[1].targets) = n
    /\ Range(objs[1].inputs) = Range(args[1].inputs)
    /\ \A i \in 1..n :
          objs[1].targets[i] = OriginalTarget(1, objs[1].inputs[i])
    /\ result[1].kind = "batch" =>
          /\ Len(result[1].targets_batch) = Len(result[1].inputs_batch)
          /\ \A i \in 1..Len(result[1].inputs_batch) :
                result[1].targets_batch[i]
                  = OriginalTarget(1, result[1].inputs_batch[i])

\* A batch returned from rows that two or more shuffles have moved.
C2_Witness ==
    /\ Usable(1) /\ result[1].kind = "batch"
    /\ rngs[objs[1].rng].draws >= 2
    /\ objs[1].inputs # args[1].inputs
    /\ Len(result[1].inputs_batch) >= 2

\* C3: for batch_size > 0, num_batches is N // batch_size when
\* max_num_batches is -1 and min(max_num_batches, N // batch_size) when it is
\* positive, in every state of the constructed provider.
C3_NumBatches ==
    (Usable(1) /\ args[1].batch_size > 0) =>
    LET whole == Len(args[1].inputs) \div args[1].batch_size
        m == args[1].max_num_batches
    IN  /\ m = -1 => objs[1].num_batches = whole
        /\ m > 0 => /\ objs[1].num_batches <= m
                     /\ objs[1].num_batches <= whole
                     /\ objs[1].num_batches \in {m, whole}

\* A provider whose cap is below the possible count, after a full epoch.
C3_Witness ==
    /\ Usable(1) /\ args[1].batch_size > 0
    /\ args[1].max_num_batches > 0
    /\ args[1].max_num_batches
         < Len(args[1].inputs) \div args[1].batch_size
    /\ hist[1].signals >= 1 /\ hist[1].resets >= 1

\* C4: within an epoch the k-th returned batch is rows
\* [k*batch_size, (k+1)*batch_size) of the epoch's row order; the batches of
\* an epoch have batch_size rows each, are pairwise disjoint, and together
\* hold (number of batches) * batch_size distinct original rows.
C4_EpochBatches ==
    Usable(1) =>
    LET ep == hist[1].epoch
        b == args[1].batch_size
    IN  /\ Len(ep) <= Max(objs[1].num_batches, 0)
        /\ \A k \in 1..Len(ep) :
              /\ Len(ep[k]) = b
              /\ ep[k] = [i \in 1..b |-> objs[1].inputs[(k - 1) * b + i]]
        /\ \A j, k \in 1..Len(ep) :
              j # k => Range(ep[j]) \cap Range(ep[k]) = {}
        /\ Cardinality(UNION {Range(ep[k]) : k \in 1..Len(ep)}) = Len(ep) * b
        /\ UNION {Range(ep[k]) : k \in 1..Len(ep)} \subseteq Range(args[1].inputs)
        /\ (result[1].kind = "batch" /\ Len(ep) > 0) =>
              result[1].inputs_batch = ep[Len(ep)]

\* A complete epoch of two batches of two rows, in shuffled order.
C4_Witness ==
    /\ Usable(1) /\ args[1].batch_size >= 2
    /\ objs[1].num_batches >= 2
    /\ Len(hist[1].epoch) = objs[1].num_batches
    /\ objs[1].inputs # args[1].inputs

\* C5: with shuffle_order disabled the k-th batch of every epoch is the
\* original rows k*batch_size .. (k+1)*batch_size-1, and no original row of
\* index >= num_batches*batch_size is ever in a batch.
C5_NoShuffleSameBatches ==
    (Usable(1) /\ ~args[1].shuffle_order) =>
    LET ep == hist[1].epoch
        b == args[1].batch_size
    IN  /\ objs[1].inputs = args[1].inputs
        /\ result[1].kind = "batch" =>
              /\ Len(ep) > 0
              /\ result[1].inputs_batch
                    = [i \in 1..b |-> (Len(ep) - 1) * b + (i - 1)]
              /\ \A i \in 1..Len(result[1].inputs_batch) :
                    result[1].inputs_batch[i] < objs[1].num_batches * b

\* The last batch of a later epoch of an unshuffled provider that leaves a
\* remainder of rows unserved.
C5_Witness ==
    /\ Usable(1) /\ ~args[1].shuffle_order /\ result[1].kind = "batch"
    /\ hist[1].signals >= 1
    /\ Len(hist[1].epoch) = objs[1].num_batches
    /\ objs[1].num_batches * args[1].batch_size < Len(args[1].inputs)

\* C7: a constructor call with max_num_batches = 0 or < -1 ends in the
\* assertion error, with no num_batches, no batch cursor, no permutation drawn
\* and no batch ever served; with max_num_batches = -1 or >= 1 the assertion
\* passes, and the provider is constructed whenever batch_size > 0.
C7_MaxNumBatchesChecked ==
    pc = "one" =>
    LET m == args[1].max_num_batches IN
    /\ (m = 0 \/ m < -1) =>
          /\ ctor[1] = "AssertionError"
          /\ "num_batches" \notin DOMAIN objs[1]
          /\ "_curr_batch" \notin DOMAIN objs[1]
          /\ \A g \in DOMAIN rngs : rngs[g].draws = 0
          /\ result[1].kind = "none" /\ hist[1].calls = 0
    /\ (m = -1 \/ m >= 1) =>
          /\ ctor[1] # "AssertionError"
          /\ args[1].batch_size > 0 =>
                /\ ctor[1] = "ok"
                /\ {"num_batches", "_curr_batch"} \subseteq DOMAIN objs[1]

\* A rejected constructor call that asked for shuffling of a non-empty
\* dataset with a generator of the caller's.
C7_Witness ==
    /\ pc = "one" /\ ctor[1] = "AssertionError"
    /\ args[1].max_num_batches < -1
    /\ args[1].shuffle_order /\ Len(args[1].inputs) >= 2
    /\ args[1].rng # None

\* C8: a constructor call with batch_size <= 0 ends in the same
\* configuration error as an invalid max_num_batches, and no provider with
\* batch_size <= 0 becomes usable.
C8_BatchSizeRejected ==
    (pc = "one" /\ args[1].batch_size <= 0) =>
    /\ ctor[1] = "AssertionError"
    /\ ~Usable(1)

\* C9: a constructor call over a dataset with no full batch
\* (N // batch_size = 0) fails instead of giving a provider with zero batches
\* per epoch.
C9_EmptyDatasetRejected ==
    (pc = "one" /\ args[1].batch_size > 0
       /\ Len(args[1].inputs) \div args[1].batch_size = 0) =>
    ~Usable(1)

\* The number of permutations drawn from provider p's generator.
Draws(p) == rngs[objs[p].rng].draws

\* C16: for batch_size > 0 the cursor stays within 0..num_batches, and every
\* returned batch is the slice [c*batch_size, (c+1)*batch_size) for the cursor
\* c of the call, with (c+1)*batch_size <= N: no batch is short and no index
\* outside 0..N-1 is read.
C16_IndexRange ==
    (Usable(1) /\ pc = "one" /\ args[1].batch_size > 0) =>
    LET b == args[1].batch_size
        n == Len(args[1].inputs)
    IN  /\ objs[1]._curr_batch >= 0
        /\ objs[1]._curr_batch <= objs[1].num_batches
        /\ result[1].kind = "batch" =>
              LET c == objs[1]._curr_batch - 1 IN
              /\ result[1].batch_slice = <<c * b, (c + 1) * b>>
              /\ c >= 0 /\ (c + 1) * b <= n
              /\ Len(result[1].inputs_batch) = b
              /\ Len(result[1].targets_batch) = b

\* The last batch of an epoch ending exactly at the last row of the data.
C16_Witness ==
    /\ Usable(1) /\ pc = "one" /\ args[1].batch_size = 2
    /\ result[1].kind = "batch"
    /\ objs[1]._curr_batch = objs[1].num_batches
    /\ objs[1].num_batches * 2 = Len(args[1].inputs)
    /\ Len(args[1].inputs) = 4

\* C17: the next() call that signals end-of-epoch returns no batch and has
\* reset the provider: right after it the cursor is 0.  Every reset draws
\* exactly one permutation with shuffle enabled and none with it disabled, so
\* after construction, k signals and no explicit reset the generator has given
\* k+1 permutations with shuffle enabled and 0 with it disabled.
C17_SignalResets ==
    (Usable(1) /\ pc = "one") =>
    /\ result[1].kind = "StopIteration" =>
          /\ objs[1]._curr_batch = 0
          /\ DOMAIN result[1] = {"kind"}
    /\ Draws(1) = IF args[1].shuffle_order
                  THEN hist[1].signals + hist[1].resets + 1
                  ELSE 0
    /\ hist[1].resets = 0 =>
          Draws(1) = IF args[1].shuffle_order THEN hist[1].signals + 1 ELSE 0

\* The second end-of-epoch signal of a shuffling provider never reset by hand.
C17_Witness ==
    /\ Usable(1) /\ pc = "one" /\ args[1].shuffle_order
    /\ hist[1].resets = 0 /\ hist[1].signals = 2
    /\ result[1].kind = "StopIteration"
    /\ objs[1].num_batches >= 1

\* C18: a next() call that returns a batch adds one to the cursor and leaves
\* every other attribute of the provider and the generator as they were; no
\* call changes the length of inputs or targets after construction.
C18_FrameOfNext ==
    [][Usable(1) =>
         /\ (hist'[1].calls = hist[1].calls + 1 /\ result'[1].kind = "batch") =>
               /\ objs'[1] = SetAttr(objs[1], "_curr_batch",
                                     objs[1]._curr_batch + 1)
               /\ rngs' = rngs
         /\ Len(objs'[1].inputs) = Len(objs[1].inputs)
         /\ Len(objs'[1].targets) = Len(objs[1].targets)]_vars

\* A second batch returned by a shuffling provider in a later epoch.
C18_Witness ==
    /\ Usable(1) /\ pc = "one" /\ args[1].shuffle_order
    /\ hist[1].signals >= 1 /\ result[1].kind = "batch"
    /\ objs[1]._curr_batch = 2

\* C19: an explicit reset() from any state sets the cursor to 0 and, with
\* shuffle enabled, applies one new permutation of all N rows (none with it
\* disabled); from any reset on, for batch_size > 0, next() signals
\* end-of-epoch exactly when num_batches batches were returned since that
\* reset, whatever was served before it.
C19_ResetRestartsEpoch ==
    [][(Usable(1) /\ pc = "one") =>
         /\ hist'[1].resets = hist[1].resets + 1 =>
               /\ objs'[1]._curr_batch = 0
               /\ hist'[1].epoch = << >>
               /\ Range(objs'[1].inputs) = Range(objs[1].inputs)
               /\ Len(objs'[1].inputs) = Len(objs[1].inputs)
               /\ Draws(1)' = Draws(1) + IF args[1].shuffle_order THEN 1 ELSE 0
         /\ (hist'[1].calls = hist[1].calls + 1 /\ args[1].batch_size > 0) =>
               ((result'[1].kind = "StopIteration")
                  <=> (Len(hist[1].epoch) = objs[1].num_batches))]_vars

\* A full epoch served after a reset that abandoned an epoch part way.
C19_Witness ==
    /\ Usable(1) /\ pc = "one" /\ args[1].shuffle_order
    /\ hist[1].resets = 1 /\ hist[1].signals = 0
    /\ objs[1].num_batches >= 2
    /\ Len(hist[1].epoch) = objs[1].num_batches
    /\ hist[1].calls > objs[1].num_batches
    /\ hist[1].calls < 2 * objs[1].num_batches

\* C20: construction ends with a reset: before the first call the cursor is
\* 0 and, with shuffle enabled, exactly one permutation of all N rows has been
\* drawn and applied to inputs and targets (for the default generator, the
\* first permutation of RandomState(DEFAULT_SEED)); with shuffle disabled
\* nothing is drawn and the order is the original one.
C20_ConstructionResets ==
    (Usable(1) /\ pc = "one" /\ hist[1].calls = 0 /\ hist[1].resets = 0) =>
    LET n == Len(args[1].inputs) IN
    /\ objs[1]._curr_batch = 0
    /\ args[1].shuffle_order =>
          /\ Draws(1) = 1
          /\ Len(objs[1].inputs) = n
          /\ Range(objs[1].inputs) = Range(args[1].inputs)
          /\ args[1].rng = None =>
                LET order == permutation(RandomState(DEFAULT_SEED), n).order
                IN  /\ objs[1].inputs = Take(args[1].inputs, order)
                    /\ objs[1].targets = Take(args[1].targets, order)
    /\ ~args[1].shuffle_order =>
          /\ Draws(1) = 0
          /\ objs[1].inputs = args[1].inputs
          /\ objs[1].targets = args[1].targets

\* A batch holding a row that the epoch before left unserved.
C20_Witness ==
    /\ Usable(1) /\ pc = "one" /\ args[1].shuffle_order
    /\ hist[1].signals >= 1 /\ result[1].kind = "batch"
    /\ Range(result[1].inputs_batch) \cap hist[1].left_out # {}

----------------------------------------------------------------------------
(* Properties of two providers (specification SpecPair). *)

\* C6: two providers built from identical data and parameters, with
\* generators seeded alike, and given the same next()/reset() calls, give the
\* same outcome at every step: the same constructor outcome, and the same
\* batch contents or the same end-of-epoch signal.
C6_ShuffleDeterminism ==
    pc = "pair" =>
    /\ ctor[1] = ctor[2]
    /\ result[1] = result[2]

\* Both providers serving a batch in an epoch after two or more shuffles.
C6_Witness ==
    /\ pc = "pair" /\ Usable(1) /\ Usable(2)
    /\ args[1].shuffle_order /\ Len(args[1].inputs) >= 3
    /\ hist[2].signals >= 1 /\ hist[2].resets >= 1
    /\ result[1].kind = "batch" /\ result[2].kind = "batch"
    /\ objs[2].inputs # args[2].inputs

----------------------------------------------------------------------------
(* Properties of to_one_of_k (specification SpecOneHot). *)

\* C10: for a batch of labels all in [0, num_classes), to_one_of_k returns
\* one row per label, each of length num_classes, holding only 0 and 1, with
\* exactly one 1, at the index equal to the label.
C10_OneHot ==
    (pc = "returned"
       /\ \A i \in 1..Len(int_targets) :
             int_targets[i] >= 0 /\ int_targets[i] < num_classes) =>
    /\ to_one_k.kind = "return"
    /\ Len(to_one_k.value) = Len(int_targets)
    /\ \A i \in 1..Len(int_targets) :
          LET row == to_one_k.value[i] IN
          /\ DOMAIN row = 0..(num_classes - 1)
          /\ \A c \in DOMAIN row : row[c] \in {0, 1}
          /\ {c \in DOMAIN row : row[c] = 1} = {int_targets[i]}

\* The encoding of two different in-range labels, one of them 7.
C10_Witness ==
    /\ pc = "returned" /\ Len(int_targets) = 2
    /\ int_targets[1] = 7 /\ int_targets[2] = 0
    /\ to_one_k.kind = "return"
    /\ to_one_k.value[1][7] = 1


\* C11: to_one_of_k raises an index-range error whenever a label of the batch
\* lies outside [0, num_classes), above or below, and returns no encoding.
C11_OutOfRangeRejected ==
    (pc = "returned"
       /\ \E i \in 1..Len(int_targets) :
            int_targets[i] < 0 \/ int_targets[i] >= num_classes) =>
    to_one_k.kind = "IndexError"


----------------------------------------------------------------------------
(* Properties of the weather provider (specification SpecMet). *)

\* The readings of the series that are not missing, in order.
Present(data) == SelectSeq(data, LAMBDA x : x # Sentinel)

\* The number of missing entries before raw position p (from 0).
MissingBefore(data, p) == Cardinality({i \in 1..p : data[i] = Sentinel})

\* The k-th (from 1) normalised reading that is not missing.
NormalisedPresent(data, k) == ZScore(Present(data)[k], Present(data))

C15_WindowSizeChecked ==
    pc = "met" =>
    /\ args[1].window_size <= 1 =>
          /\ ctor[1] = "AssertionError"
          /\ DOMAIN objs[1] = {"window_size"}
          /\ DOMAIN rngs = {}
          /\ result[1].kind = "none" /\ hist[1].calls = 0
    /\ args[1].window_size >= 2 =>
          /\ {"filtered_data", "windowed_data", "inputs", "targets"}
                \subseteq DOMAIN objs[1]
          /\ (ctor[1] = "ok") <=> (args[1].max_num_batches # 0)
          /\ ctor[1] = "ok" =>
                {"num_batches", "_curr_batch"} \subseteq DOMAIN objs[1]

\* A rejected call with window_size = 1 over a series long enough to window.
C15_Witness ==
    /\ pc = "met" /\ ctor[1] = "AssertionError"
    /\ args[1].window_size = 1
    /\ Len(Present(args[1].data)) >= 4
    /\ args[1].max_num_batches = -1 /\ args[1].shuffle_order


----------------------------------------------------------------------------
(* Properties of the one-hot provider beside the base one (SpecMnist). *)

\* C14: given the same calls over the same data and permutation stream,
\* MNISTDataProvider.next signals end-of-epoch on exactly the calls on which
\* DataProvider.next does, leaves the same cursor and row order, and on every
\* other call returns the same inputs_batch with each target replaced by its
\* one-hot row.
C14_MnistFollowsBase ==
    (pc = "mnist" /\ Usable(1) /\ Usable(2)) =>
    /\ (result[2].kind = "StopIteration") <=> (result[1].kind = "StopIteration")
    /\ (result[2].kind = "batch") <=> (result[1].kind = "batch")
    /\ objs[2]._curr_batch = objs[1]._curr_batch
    /\ objs[2].inputs = objs[1].inputs
    /\ objs[2].targets = objs[1].targets
    /\ result[1].kind = "batch" =>
          /\ result[2].inputs_batch = result[1].inputs_batch
          /\ Len(result[2].targets_batch) = Len(result[1].targets_batch)
          /\ \A i \in 1..Len(result[1].targets_batch) :
                result[2].targets_batch[i]
                  = [c \in 0..(num_classes - 1) |->
                        IF c = result[1].targets_batch[i] THEN 1 ELSE 0]

\* Both providers returning a batch of two rows in a shuffled later epoch.
C14_Witness ==
    /\ pc = "mnist" /\ Usable(1) /\ Usable(2)
    /\ args[2].shuffle_order /\ hist[2].signals >= 1
    /\ result[2].kind = "batch" /\ Len(result[2].inputs_batch) = 2
    /\ Len(objs[2].inputs) > 2
    /\ objs[2].inputs # args[2].inputs

====
